---- MODULE Spec2Model ----
(***************************************************************************)
(* hade-avatar-server: the D-ID client-key handler with its single-slot    *)
(* cache (src/server.js) and the Voiceflow reply relay (src/server.js and   *)
(* the n8n proxy of src/unnamed/part_000), as a state machine.  One action  *)
(* is one uninterrupted run of a handler between two awaits.                *)
(***************************************************************************)
EXTENDS Integers, Sequences, FiniteSets, TLC

VARIABLES env, now, ticks, cachedClientKey, cachedAt, pc, loc, resp, calls, hist,
          rpc, rin, rloc, rresp, rcalls

\* The state of the relay requests (POST /vf/reply).
relayVars == <<rpc, rin, rloc, rresp, rcalls>>

\* The state of the client-key requests and of the key cache.
didVars == <<now, ticks, cachedClientKey, cachedAt, pc, loc, resp, calls, hist>>

vars == <<env, now, ticks, cachedClientKey, cachedAt, pc, loc, resp, calls, hist,
          rpc, rin, rloc, rresp, rcalls>>

(***************************************************************************)
(* Bounds of the model.                                                     *)
(***************************************************************************)
MaxTicks == 2

\* The inbound requests that may be in flight together.
Reqs == {"r1", "r2"}

(***************************************************************************)
(* JavaScript values.                                                       *)
(***************************************************************************)
\* undefined (an absent field); the cache's initial null is modelled alike,
\* both being falsy values that no upstream key equals.
Undef == "undefined"

\* Truthiness of a string-or-undefined value: "" and undefined are falsy.
Truthy(v) == v # Undef /\ v # ""

\* a || b
Or(a, b) == IF Truthy(a) THEN a ELSE b

\* A description field: absent, a string (a sequence of words) or a number.
NoDesc == [type |-> "undefined", words |-> <<>>]
Str(ws) == [type |-> "string", words |-> ws]
Num42 == [type |-> "number", words |-> <<>>]

\* Response bodies of the avatar service: not JSON, JSON null, or an object.
Body(ck, cK, k, d) ==
    [kind |-> "object", client_key |-> ck, clientKey |-> cK, key |-> k, description |-> d]
NonJson == [kind |-> "nonjson", client_key |-> Undef, clientKey |-> Undef, key |-> Undef, description |-> NoDesc]
JsonNull == [kind |-> "null", client_key |-> Undef, clientKey |-> Undef, key |-> Undef, description |-> NoDesc]
EmptyObject == Body(Undef, Undef, Undef, NoDesc)
NoData == [kind |-> "unset", client_key |-> Undef, clientKey |-> Undef, key |-> Undef, description |-> NoDesc]

DidBodies ==
    { NonJson, JsonNull,
      Body(Undef, Undef, "", NoDesc),
      Body("kA", Undef, Undef, NoDesc),
      Body("", "kB", "kA", NoDesc),
      Body(Undef, Undef, Undef, Str(<<"key", "already", "exists">>)),
      Body(Undef, Undef, "kB", Str(<<"already", "exists">>)),
      Body(Undef, Undef, Undef, Str(<<"exists", "already">>)),
      Body(Undef, Undef, Undef, Num42) }

GetStatuses == {200, 404}
PostStatuses == {201, 400, 409}

\* Response.ok of fetch: the status is in 200..299.
Ok(status) == status >= 200 /\ status <= 299

(***************************************************************************)
(* Helpers of src/server.js.                                                *)
(***************************************************************************)
\* 10 * 60 * 1000 ms
TTL == 600000

\* The steps by which the clock is seen to advance.
Deltas == {1, TTL - 1}

\* Date.now() when the process starts: further from the epoch (cachedAt = 0)
\* than the TTL.
StartTime == 2 * TTL

\* requireEnv(name, value): passes iff the value is truthy.
requireEnv(value) == Truthy(value)

\* didBasicAuthHeader(): throws on the first missing credential.
didBasicAuthHeader ==
    IF ~requireEnv(env.DID_BASIC_USER)
    THEN [throws |-> TRUE, message |-> "Missing env var: DID_BASIC_USER"]
    ELSE IF ~requireEnv(env.DID_BASIC_PASS)
    THEN [throws |-> TRUE, message |-> "Missing env var: DID_BASIC_PASS"]
    ELSE [throws |-> FALSE, message |-> ""]

\* String.prototype.includes on word sequences: pat occurs contiguously in ws.
Includes(ws, pat) ==
    \E i \in 0..(Len(ws) - Len(pat)) : SubSeq(ws, i + 1, i + Len(pat)) = pat

\* r.json().catch(() => dflt): the parsed body, or dflt when it is not JSON.
JsonOr(body, dflt) == IF body.kind = "nonjson" THEN dflt ELSE body

\* Variant: the TTL taken in seconds instead of milliseconds.
CacheFresh_seconds == Truthy(cachedClientKey) /\ now - cachedAt < 10 * 60

\* Variant: the TTL bound included.
CacheFresh_inclusive == Truthy(cachedClientKey) /\ now - cachedAt <= TTL

\* cachedClientKey && Date.now() - cachedAt < 10 * 60 * 1000
CacheFresh == Truthy(cachedClientKey) /\ now - cachedAt < TTL

\* Variant: the candidates are tried in the reverse order.
ExtractKey_reversed(data) == Or(Or(data.key, data.clientKey), data.client_key)

\* data?.client_key || data?.clientKey || data?.key
ExtractKey(data) == Or(Or(data.client_key, data.clientKey), data.key)

\* Variant: every description counts as saying "already exists".
AlreadyExists_always(postData) == "true"

\* (postData?.description || "").includes("already exists"): "true", "false",
\* or "throws" when the description is truthy and has no includes method.
AlreadyExists(postData) ==
    LET d == postData.description IN
    IF d.type = "number" THEN "throws"
    ELSE IF d.type = "string" /\ Includes(d.words, <<"already", "exists">>) THEN "true"
    ELSE "false"

\* Variant: only an absent key counts as no key.
NoKey_undefinedOnly(clientKey) == clientKey = Undef

\* !clientKey (line 245)
NoKey(clientKey) == ~Truthy(clientKey)

\* Variant: the status of the recovery GET is not looked at.
RecoveryFailed_keyOnly(status, clientKey2) == ~Truthy(clientKey2)

\* !getR2.ok || !clientKey2
RecoveryFailed(status, clientKey2) == ~Ok(status) \/ ~Truthy(clientKey2)

(***************************************************************************)
(* Values of the relay: strings are sequences of characters.                *)
(***************************************************************************)
JUndef == [type |-> "undefined", str |-> <<>>, n |-> 0]
JStr(chars) == [type |-> "string", str |-> chars, n |-> 0]
JNum(k) == [type |-> "number", str |-> <<>>, n |-> k]

\* Truthiness of a string, number or undefined.
JTruthy(v) ==
    \/ v.type = "string" /\ v.str # <<>>
    \/ v.type = "number" /\ v.n # 0

\* typeof v === "string"
IsString(v) == v.type = "string"

Whitespace == {" ", "\n"}

\* String.prototype.trim
Trim(chars) ==
    LET keep == {i \in 1..Len(chars) : chars[i] \notin Whitespace} IN
    IF keep = {} THEN <<>>
    ELSE SubSeq(chars, CHOOSE i \in keep : \A j \in keep : i <= j,
                       CHOOSE i \in keep : \A j \in keep : i >= j)

\* Array.prototype.join
RECURSIVE Join(_, _)
Join(strs, sep) ==
    IF strs = <<>> THEN <<>>
    ELSE IF Len(strs) = 1 THEN strs[1]
    ELSE strs[1] \o sep \o Join(Tail(strs), sep)

\* A trace event: null, or an object with a type, payload.message and
\* payload.slate.content (an array of blocks, or not an array).
NullEvent == [kind |-> "null", type |-> "", message |-> JUndef,
              content |-> [isArray |-> FALSE, blocks |-> <<>>]]
Event(ty, msg, isArr, blocks) ==
    [kind |-> "object", type |-> ty, message |-> msg,
     content |-> [isArray |-> isArr, blocks |-> blocks]]
MessageEvent(chars) == Event("text", JStr(chars), FALSE, <<>>)
SlateEvent(blocks) == Event("text", JUndef, TRUE, blocks)
\* A block: its children are an array of nodes with a text, or not an array.
Block(texts) == [isArray |-> TRUE, children |-> texts]
NoChildren == [isArray |-> FALSE, children |-> <<>>]

\* A value that may be a trace array.
NoTraces == [kind |-> "undefined", items |-> <<>>]
Traces(events) == [kind |-> "array", items |-> events]
NotAnArray == [kind |-> "other", items |-> <<>>]

\* A response body of the conversational runtime.
VfData(kind, items, trace, traces) ==
    [kind |-> kind, items |-> items, trace |-> trace, traces |-> traces]
VfNonJson == VfData("nonjson", <<>>, NoTraces, NoTraces)
VfNull == VfData("null", <<>>, NoTraces, NoTraces)
VfArray(events) == VfData("array", events, NoTraces, NoTraces)
VfObject(trace, traces) == VfData("object", <<>>, trace, traces)
VfUnset == VfData("unset", <<>>, NoTraces, NoTraces)
\* { message: "Voiceflow returned non-JSON error" }
VfNonJsonMessage == VfData("non-JSON error message", <<>>, NoTraces, NoTraces)

\* The texts of the children of the array blocks, trimmed, blanks dropped.
RECURSIVE ChildTexts(_)
ChildTexts(children) ==
    IF children = <<>> THEN <<>>
    ELSE LET tx == children[1] IN
         (IF IsString(tx) /\ Trim(tx.str) # <<>> THEN <<Trim(tx.str)>> ELSE <<>>)
         \o ChildTexts(Tail(children))

RECURSIVE SlateTexts(_)
SlateTexts(blocks) ==
    IF blocks = <<>> THEN <<>>
    ELSE (IF blocks[1].isArray THEN ChildTexts(blocks[1].children) ELSE <<>>)
         \o SlateTexts(Tail(blocks))

\* What one trace event pushes on parts: nothing or one string.
EventParts(t) ==
    IF t.kind = "null" \/ t.type # "text" THEN <<>>
    ELSE IF IsString(t.message) /\ Trim(t.message.str) # <<>>
    THEN <<Trim(t.message.str)>>
    ELSE IF t.content.isArray
    THEN LET texts == SlateTexts(t.content.blocks) IN
         IF Len(texts) > 0 THEN <<Join(texts, <<" ">>)>> ELSE <<>>
    ELSE <<>>

RECURSIVE Parts(_)
Parts(events) ==
    IF events = <<>> THEN <<>> ELSE EventParts(events[1]) \o Parts(Tail(events))

\* extractVoiceflowReply(traces)
extractVoiceflowReply(traces) ==
    IF traces.kind # "array" THEN <<>>
    ELSE Trim(Join(Parts(traces.items), <<"\n">>))

\* Array.isArray(data) ? data : data?.trace || data?.traces || data
TracesOf(data) ==
    IF data.kind = "array" THEN Traces(data.items)
    ELSE IF data.trace.kind # "undefined" THEN data.trace
    ELSE IF data.traces.kind # "undefined" THEN data.traces
    ELSE NotAnArray

\* "Îmi pare rău, nu am un răspuns acum."
Fallback == <<"Imi pare rau, nu am un raspuns acum.">>

\* Variant: the extractor's output is returned as it is.
ReplyText_noFallback(data) == extractVoiceflowReply(TracesOf(data))

\* extractVoiceflowReply(traces) || fallback
ReplyText(data) ==
    LET text == extractVoiceflowReply(TracesOf(data)) IN
    IF text # <<>> THEN text ELSE Fallback

(***************************************************************************)
(* HTTP responses of the handlers.                                          *)
(***************************************************************************)
Response(st, er, msg, up, ck, ca, nt, dt) ==
    [status |-> st, error |-> er, message |-> msg, upstatus |-> up,
     clientKey |-> ck, cached |-> ca, note |-> nt, details |-> dt]

NoResp == Response(0, Undef, Undef, 0, Undef, FALSE, Undef, NoData)

\* res.json({ clientKey: cachedClientKey, cached: true })
CacheHitResponse(key) == Response(200, Undef, Undef, 0, key, TRUE, Undef, NoData)

\* res.json({ clientKey })
KeyResponse(key) == Response(200, Undef, Undef, 0, key, FALSE, Undef, NoData)

\* res.json({ clientKey: clientKey2, note: "fetched_after_exists" })
RecoveredResponse(key) ==
    Response(200, Undef, Undef, 0, key, FALSE, "fetched_after_exists", NoData)

\* 502 { error: "did_error", message: "Client key exists but could not be fetched", details }
UnfetchableResponse(data) ==
    Response(502, "did_error", "Client key exists but could not be fetched", 0,
             Undef, FALSE, Undef, data)

\* 502 { error: "did_error", status: postR.status, details: postData }
PostFailedResponse(status, data) ==
    Response(502, "did_error", Undef, status, Undef, FALSE, Undef, data)

\* 502 { error: "did_error", message: "D-ID did not return a clientKey", details }
NoKeyResponse(data) ==
    Response(502, "did_error", "D-ID did not return a clientKey", 0,
             Undef, FALSE, Undef, data)

\* 500 { error: "server_error", message: err.message }
ServerError(msg) == Response(500, "server_error", msg, 0, Undef, FALSE, Undef, NoData)

\* Responses of POST /vf/reply.
RelayResponse(st, er, msg, up, rt, dt, vb) ==
    [status |-> st, error |-> er, message |-> msg, upstatus |-> up,
     replyText |-> rt, details |-> dt, verbatim |-> vb]

NoRelayResp == RelayResponse(0, Undef, Undef, 0, JUndef, VfUnset, FALSE)

\* res.status(400).json({ error })
BadRequest(er) == RelayResponse(400, er, Undef, 0, JUndef, VfUnset, FALSE)

\* Variant: every upstream failure is answered 502.
VoiceflowError_502(st, data) ==
    RelayResponse(502, "voiceflow_error", Undef, st, JUndef,
                  IF data.kind = "null" THEN VfNonJsonMessage ELSE data, FALSE)

\* res.status(r.status).json({ error: "voiceflow_error", status, details })
VoiceflowError(st, data) ==
    RelayResponse(st, "voiceflow_error", Undef, st, JUndef,
                  IF data.kind = "null" THEN VfNonJsonMessage ELSE data, FALSE)

\* res.json({ replyText })
ReplyResponse(text) == RelayResponse(200, Undef, Undef, 0, JStr(text), VfUnset, FALSE)

\* res.status(500).json({ error: "server_error", message: err.message })
RelayServerError(msg) == RelayResponse(500, "server_error", msg, 0, JUndef, VfUnset, FALSE)

\* part_000: res.status(r.status).json(data)
MirrorResponse(st, data) == RelayResponse(st, Undef, Undef, 0, JUndef, data, TRUE)

\* part_000: res.status(500).json({ error: "vf_proxy_failed", details })
ProxyFailed(msg) == RelayResponse(500, "vf_proxy_failed", msg, 0, JUndef, VfUnset, FALSE)

(***************************************************************************)
(* State.                                                                   *)
(***************************************************************************)
NoLocals ==
    [getR |-> 0, getData |-> NoData, postR |-> 0, postData |-> NoData,
     getR2 |-> 0, getData2 |-> NoData]

\* History kept for the properties: the number of cache writes so far and who
\* wrote last; per request, the number of writes that preceded its cache read
\* and the number of its own write (0: it has not written).
NoHist ==
    [writes |-> 0, lastWriter |-> "none",
     readSeq |-> [r \in Reqs |-> 0], wroteSeq |-> [r \in Reqs |-> 0]]

\* The environment the process was started with: "" is an unset variable.
Env(user, pass, state, key, url) ==
    [DID_BASIC_USER |-> user, DID_BASIC_PASS |-> pass,
     VF_STATE_ID |-> state, VF_API_KEY |-> key, N8N_VF_REPLY_URL |-> url]

DidEnvs == { Env(u, p, "state", "key", "url") : u \in {"", "user"}, p \in {"", "pass"} }

RelayEnvs ==
    { Env("user", "pass", s, k, u) : s \in {"", "state"}, k \in {"", "key"}, u \in {"", "url"} }

\* An inbound POST /vf/reply: which program handles it, and its body.
Inbound(handler, sessionId, userText) ==
    [handler |-> handler, sessionId |-> sessionId, userText |-> userText]
NoInbound == Inbound("none", JUndef, JUndef)

InitDid ==
    /\ now = StartTime
    /\ ticks = 0
    /\ cachedClientKey = Undef
    /\ cachedAt = 0
    /\ pc = [r \in Reqs |-> "idle"]
    /\ loc = [r \in Reqs |-> NoLocals]
    /\ resp = [r \in Reqs |-> NoResp]
    /\ calls = [r \in Reqs |-> <<>>]
    /\ hist = NoHist

\* The locals of a relay handler: the upstream's status (r.status) and the
\* body it sent, once received.
NoUpstream == [status |-> 0, body |-> VfUnset]

InitRelayVars ==
    /\ rpc = [r \in Reqs |-> "idle"]
    /\ rin = [r \in Reqs |-> NoInbound]
    /\ rloc = [r \in Reqs |-> NoUpstream]
    /\ rresp = [r \in Reqs |-> NoRelayResp]
    /\ rcalls = [r \in Reqs |-> <<>>]

\* The process has just started: nothing cached, no request in flight.
Init ==
    /\ env \in DidEnvs
    /\ InitDid
    /\ InitRelayVars

InitRelay ==
    /\ env \in RelayEnvs
    /\ InitDid
    /\ InitRelayVars

\* Time passes between two handler steps.
Tick ==
    /\ ticks < MaxTicks
    /\ \E d \in Deltas : now' = now + d
    /\ ticks' = ticks + 1
    /\ UNCHANGED <<env, cachedClientKey, cachedAt, pc, loc, resp, calls, hist>>
    /\ UNCHANGED relayVars

\* return res...: the handler ends with one response.
Reply(r, response) ==
    /\ resp' = [resp EXCEPT ![r] = response]
    /\ pc' = [pc EXCEPT ![r] = "done"]
    /\ calls' = calls

\* await fetch(url, { method }): the call goes out and the handler suspends.
Fetch(r, method, next) ==
    /\ calls' = [calls EXCEPT ![r] = Append(@, method)]
    /\ pc' = [pc EXCEPT ![r] = next]
    /\ resp' = resp

\* Variant: a key that is still fresh is not overwritten.
Store_firstWins(key) ==
    IF CacheFresh
    THEN UNCHANGED <<cachedClientKey, cachedAt>>
    ELSE cachedClientKey' = key /\ cachedAt' = now

\* Variant: the key is stored without its time stamp.
Store_keyOnly(key) ==
    /\ cachedClientKey' = key
    /\ cachedAt' = cachedAt

\* cachedClientKey = key; cachedAt = Date.now();
Store(key) ==
    /\ cachedClientKey' = key
    /\ cachedAt' = now

NoteWrite(r) ==
    hist' = [hist EXCEPT !.writes = @ + 1, !.lastWriter = r,
                         !.wroteSeq[r] = hist.writes + 1]

NoteRead(r) == hist' = [hist EXCEPT !.readSeq[r] = hist.writes]

(***************************************************************************)
(* GET /did/client-key (src/server.js, lines 171-259).                      *)
(***************************************************************************)
\* Variant: while another request awaits its first GET, a request waits for
\* that answer instead of issuing its own call.
FirstGet_shared(r) ==
    IF \E o \in Reqs \ {r} : pc[o] = "awaitGet1"
    THEN /\ pc' = [pc EXCEPT ![r] = "awaitGet1"]
         /\ UNCHANGED <<calls, resp>>
    ELSE Fetch(r, "GET", "awaitGet1")

\* First GET: const getR = await fetch(..., { method: "GET" })
FirstGet(r) == Fetch(r, "GET", "awaitGet1")

\* const postR = await fetch(..., { method: "POST" })
CreatePost(r) == Fetch(r, "POST", "awaitPost")

\* const getR2 = await fetch(..., { method: "GET" })
RecoveryGet(r) == Fetch(r, "GET", "awaitGet2")

\* Variant: a cache hit stamps the cached key with the current time.
DidClientKey_restamp(r) ==
    /\ pc[r] = "idle"
    /\ NoteRead(r)
    /\ IF CacheFresh
       THEN Reply(r, CacheHitResponse(cachedClientKey)) /\ cachedAt' = now
       ELSE /\ cachedAt' = cachedAt
            /\ IF didBasicAuthHeader.throws
               THEN Reply(r, ServerError(didBasicAuthHeader.message))
               ELSE FirstGet(r)
    /\ UNCHANGED <<env, now, ticks, cachedClientKey, loc>>
    /\ UNCHANGED relayVars

\* The handler starts: cache check, auth header, first GET.
DidClientKey(r) ==
    /\ pc[r] = "idle"
    /\ NoteRead(r)
    /\ IF CacheFresh
       THEN Reply(r, CacheHitResponse(cachedClientKey))
       ELSE IF didBasicAuthHeader.throws
       THEN Reply(r, ServerError(didBasicAuthHeader.message))
       ELSE FirstGet(r)
    /\ UNCHANGED <<env, now, ticks, cachedClientKey, cachedAt, loc>>
    /\ UNCHANGED relayVars

\* The first GET answers with a status; on 2xx the handler awaits the body,
\* otherwise it goes on to the POST.
Get1Resolve(r) ==
    /\ pc[r] = "awaitGet1"
    /\ \E st \in GetStatuses :
         /\ loc' = [loc EXCEPT ![r].getR = st]
         /\ IF Ok(st)
            THEN /\ pc' = [pc EXCEPT ![r] = "awaitGet1Json"]
                 /\ UNCHANGED <<resp, calls>>
            ELSE CreatePost(r)
    /\ UNCHANGED <<env, now, ticks, cachedClientKey, cachedAt, hist>>
    /\ UNCHANGED relayVars

\* Variant: the key of the first GET is stored but the handler does not
\* return, and goes on to the POST.
Get1Json_fallthrough(r) ==
    /\ pc[r] = "awaitGet1Json"
    /\ \E body \in DidBodies :
         LET getData == JsonOr(body, EmptyObject)
             clientKey == ExtractKey(getData)
         IN /\ loc' = [loc EXCEPT ![r].getData = getData]
            /\ IF Truthy(clientKey)
               THEN Store(clientKey) /\ NoteWrite(r)
               ELSE UNCHANGED <<cachedClientKey, cachedAt, hist>>
            /\ CreatePost(r)
    /\ UNCHANGED <<env, now, ticks>>
    /\ UNCHANGED relayVars

\* getData = await getR.json().catch(() => ({})); a key is stored and
\* returned, otherwise the POST follows.
Get1Json(r) ==
    /\ pc[r] = "awaitGet1Json"
    /\ \E body \in DidBodies :
         LET getData == JsonOr(body, EmptyObject)
             clientKey == ExtractKey(getData)
         IN IF Truthy(clientKey)
            THEN /\ loc' = [loc EXCEPT ![r].getData = getData]
                 /\ Store(clientKey)
                 /\ NoteWrite(r)
                 /\ Reply(r, KeyResponse(clientKey))
            ELSE /\ loc' = loc
                 /\ CreatePost(r)
                 /\ UNCHANGED <<cachedClientKey, cachedAt, hist>>
    /\ UNCHANGED <<env, now, ticks>>
    /\ UNCHANGED relayVars

\* The POST answers with a status; the handler awaits its body.
PostResolve(r) ==
    /\ pc[r] = "awaitPost"
    /\ \E st \in PostStatuses : loc' = [loc EXCEPT ![r].postR = st]
    /\ pc' = [pc EXCEPT ![r] = "awaitPostJson"]
    /\ UNCHANGED <<env, now, ticks, cachedClientKey, cachedAt, resp, calls, hist>>
    /\ UNCHANGED relayVars

\* postData = await postR.json().catch(() => ({})), then lines 214-255.
PostJson(r) ==
    /\ pc[r] = "awaitPostJson"
    /\ \E body \in DidBodies :
         LET postData == JsonOr(body, EmptyObject)
             status == loc[r].postR
             exists == IF Ok(status) THEN "false" ELSE AlreadyExists(postData)
             clientKey == ExtractKey(postData)
         IN /\ loc' = [loc EXCEPT ![r].postData = postData]
            /\ IF exists = "throws"
               THEN /\ Reply(r, ServerError("includes is not a function"))
                    /\ UNCHANGED <<cachedClientKey, cachedAt, hist>>
               ELSE IF exists = "true"
               THEN /\ RecoveryGet(r)
                    /\ UNCHANGED <<cachedClientKey, cachedAt, hist>>
               ELSE IF ~Ok(status)
               THEN /\ Reply(r, PostFailedResponse(status, postData))
                    /\ UNCHANGED <<cachedClientKey, cachedAt, hist>>
               ELSE IF NoKey(clientKey)
               THEN /\ Reply(r, NoKeyResponse(postData))
                    /\ UNCHANGED <<cachedClientKey, cachedAt, hist>>
               ELSE /\ Store(clientKey)
                    /\ NoteWrite(r)
                    /\ Reply(r, KeyResponse(clientKey))
    /\ UNCHANGED <<env, now, ticks>>
    /\ UNCHANGED relayVars

\* The recovery GET answers with a status; the handler awaits its body.
Get2Resolve(r) ==
    /\ pc[r] = "awaitGet2"
    /\ \E st \in GetStatuses : loc' = [loc EXCEPT ![r].getR2 = st]
    /\ pc' = [pc EXCEPT ![r] = "awaitGet2Json"]
    /\ UNCHANGED <<env, now, ticks, cachedClientKey, cachedAt, resp, calls, hist>>
    /\ UNCHANGED relayVars

\* Variant: the recovery takes its key from the failed POST's body.
Get2Json_postKey(r) ==
    /\ pc[r] = "awaitGet2Json"
    /\ \E body \in DidBodies :
         LET getData2 == JsonOr(body, EmptyObject)
             clientKey2 == ExtractKey(loc[r].postData)
         IN /\ loc' = [loc EXCEPT ![r].getData2 = getData2]
            /\ IF RecoveryFailed(loc[r].getR2, clientKey2)
               THEN /\ Reply(r, UnfetchableResponse(getData2))
                    /\ UNCHANGED <<cachedClientKey, cachedAt, hist>>
               ELSE /\ Store(clientKey2)
                    /\ NoteWrite(r)
                    /\ Reply(r, RecoveredResponse(clientKey2))
    /\ UNCHANGED <<env, now, ticks>>
    /\ UNCHANGED relayVars

\* getData2 = await getR2.json().catch(() => ({})), then lines 223-233.
Get2Json(r) ==
    /\ pc[r] = "awaitGet2Json"
    /\ \E body \in DidBodies :
         LET getData2 == JsonOr(body, EmptyObject)
             clientKey2 == ExtractKey(getData2)
         IN /\ loc' = [loc EXCEPT ![r].getData2 = getData2]
            /\ IF RecoveryFailed(loc[r].getR2, clientKey2)
               THEN /\ Reply(r, UnfetchableResponse(getData2))
                    /\ UNCHANGED <<cachedClientKey, cachedAt, hist>>
               ELSE /\ Store(clientKey2)
                    /\ NoteWrite(r)
                    /\ Reply(r, RecoveredResponse(clientKey2))
    /\ UNCHANGED <<env, now, ticks>>
    /\ UNCHANGED relayVars

\* Variant: a rejected fetch is swallowed and the handler never answers.
FetchReject_hangs(r) ==
    /\ pc[r] \in {"awaitGet1", "awaitPost", "awaitGet2"}
    /\ pc' = [pc EXCEPT ![r] = "hung"]
    /\ UNCHANGED <<env, now, ticks, cachedClientKey, cachedAt, loc, resp, calls, hist>>
    /\ UNCHANGED relayVars

\* An awaited fetch rejects: catch (err) answers 500.
FetchReject(r) ==
    /\ pc[r] \in {"awaitGet1", "awaitPost", "awaitGet2"}
    /\ Reply(r, ServerError("fetch failed"))
    /\ UNCHANGED <<env, now, ticks, cachedClientKey, cachedAt, loc, hist>>
    /\ UNCHANGED relayVars

(***************************************************************************)
(* POST /vf/reply (src/server.js, lines 108-162).                           *)
(***************************************************************************)
SessionIds == { JUndef, JStr(<<"s">>), JNum(7) }
UserTexts == { JUndef, JStr(<<>>), JStr(<<" ", "h", "i">>), JNum(42), JNum(0) }
VfStatuses == {200, 404, 500}
VfBodies ==
    { VfNonJson, VfNull, VfArray(<<>>),
      VfArray(<<MessageEvent(<<" ", "h", "i", " ">>)>>),
      VfObject(Traces(<<SlateEvent(<<Block(<<JStr(<<"a">>), JStr(<<"b">>)>>),
                                     Block(<<JStr(<<"c">>)>>)>>)>>), NoTraces),
      VfObject(NoTraces, Traces(<<Event("speak", JStr(<<"x">>), FALSE, <<>>)>>)),
      VfObject(NoTraces, NoTraces),
      VfArray(<<NullEvent, SlateEvent(<<NoChildren, Block(<<JStr(<<" ">>), JNum(5)>>)>>)>>) }

\* !sessionId || typeof sessionId !== "string"
BadSessionId(sessionId) == ~JTruthy(sessionId) \/ ~IsString(sessionId)

\* !userText || typeof userText !== "string"
BadUserText(userText) == ~JTruthy(userText) \/ ~IsString(userText)

\* What the validation of lines 110-120 answers: a response, or NoRelayResp
\* when the request passes.
Validate(sessionId, userText) ==
    IF ~requireEnv(env.VF_STATE_ID)
    THEN RelayServerError("Missing env var: VF_STATE_ID")
    ELSE IF ~requireEnv(env.VF_API_KEY)
    THEN RelayServerError("Missing env var: VF_API_KEY")
    ELSE IF BadSessionId(sessionId)
    THEN BadRequest("sessionId is required (string)")
    ELSE IF BadUserText(userText)
    THEN BadRequest("userText is required (string)")
    ELSE NoRelayResp

RelayReply(r, response) ==
    /\ rresp' = [rresp EXCEPT ![r] = response]
    /\ rpc' = [rpc EXCEPT ![r] = "done"]
    /\ rcalls' = rcalls

RelayFetch(r, to, sessionId, payload, next) ==
    /\ rcalls' = [rcalls EXCEPT ![r] =
                    Append(@, [to |-> to, sessionId |-> sessionId, payload |-> payload])]
    /\ rpc' = [rpc EXCEPT ![r] = next]
    /\ rresp' = rresp

\* The handler starts: configuration, validation, the outbound POST.
VfReply(r) ==
    /\ rpc[r] = "idle"
    /\ \E sessionId \in SessionIds, userText \in UserTexts :
         /\ rin' = [rin EXCEPT ![r] = Inbound("server.js", sessionId, userText)]
         /\ IF Validate(sessionId, userText) # NoRelayResp
            THEN RelayReply(r, Validate(sessionId, userText))
            ELSE RelayFetch(r, "voiceflow", sessionId, JStr(Trim(userText.str)), "awaitVf")
    /\ UNCHANGED <<env, rloc>>
    /\ UNCHANGED didVars

\* The runtime answers with a status; the handler awaits the body.
VfResolve(r) ==
    /\ rpc[r] = "awaitVf"
    /\ \E st \in VfStatuses : rloc' = [rloc EXCEPT ![r].status = st]
    /\ rpc' = [rpc EXCEPT ![r] = "awaitVfJson"]
    /\ UNCHANGED <<env, rin, rresp, rcalls>>
    /\ UNCHANGED didVars

\* data = await r.json().catch(() => null), then lines 145-158.
VfJson(r) ==
    /\ rpc[r] = "awaitVfJson"
    /\ \E body \in VfBodies :
         LET data == IF body.kind = "nonjson" THEN VfNull ELSE body IN
         /\ rloc' = [rloc EXCEPT ![r].body = body]
         /\ IF ~Ok(rloc[r].status)
            THEN RelayReply(r, VoiceflowError(rloc[r].status, data))
            ELSE RelayReply(r, ReplyResponse(ReplyText(data)))
    /\ UNCHANGED <<env, rin>>
    /\ UNCHANGED didVars

\* The awaited fetch rejects: catch (err) answers 500.
VfReject(r) ==
    /\ rpc[r] = "awaitVf"
    /\ RelayReply(r, RelayServerError("fetch failed"))
    /\ UNCHANGED <<env, rin, rloc>>
    /\ UNCHANGED didVars

(***************************************************************************)
(* POST /vf/reply of the n8n proxy (src/unnamed/part_000, lines 17-33).     *)
(***************************************************************************)
\* !sessionId || !userText
MissingFields(sessionId, userText) == ~JTruthy(sessionId) \/ ~JTruthy(userText)

N8nVfReply(r) ==
    /\ rpc[r] = "idle"
    /\ \E sessionId \in SessionIds, userText \in UserTexts :
         /\ rin' = [rin EXCEPT ![r] = Inbound("part_000", sessionId, userText)]
         /\ IF MissingFields(sessionId, userText)
            THEN RelayReply(r, BadRequest("Missing sessionId/userText"))
            ELSE IF ~Truthy(env.N8N_VF_REPLY_URL)
            THEN RelayReply(r, ProxyFailed("Failed to parse URL"))
            ELSE RelayFetch(r, "n8n", sessionId, userText, "awaitN8n")
    /\ UNCHANGED <<env, rloc>>
    /\ UNCHANGED didVars

N8nResolve(r) ==
    /\ rpc[r] = "awaitN8n"
    /\ \E st \in VfStatuses : rloc' = [rloc EXCEPT ![r].status = st]
    /\ rpc' = [rpc EXCEPT ![r] = "awaitN8nJson"]
    /\ UNCHANGED <<env, rin, rresp, rcalls>>
    /\ UNCHANGED didVars

\* data = await r.json().catch(() => ({})); res.status(r.status).json(data)
N8nJson(r) ==
    /\ rpc[r] = "awaitN8nJson"
    /\ \E body \in VfBodies :
         LET data == IF body.kind = "nonjson" THEN VfObject(NoTraces, NoTraces) ELSE body IN
         /\ rloc' = [rloc EXCEPT ![r].body = body]
         /\ RelayReply(r, MirrorResponse(rloc[r].status, data))
    /\ UNCHANGED <<env, rin>>
    /\ UNCHANGED didVars

N8nReject(r) ==
    /\ rpc[r] = "awaitN8n"
    /\ RelayReply(r, ProxyFailed("fetch failed"))
    /\ UNCHANGED <<env, rin, rloc>>
    /\ UNCHANGED didVars

Next ==
    \/ Tick
    \/ \E r \in Reqs :
         \/ DidClientKey(r)
         \/ Get1Resolve(r)
         \/ Get1Json(r)
         \/ PostResolve(r)
         \/ PostJson(r)
         \/ Get2Resolve(r)
         \/ Get2Json(r)
         \/ FetchReject(r)

Spec == Init /\ [][Next]_vars

NextRelay ==
    \E r \in Reqs :
       \/ VfReply(r)
       \/ VfResolve(r)
       \/ VfJson(r)
       \/ VfReject(r)
       \/ N8nVfReply(r)
       \/ N8nResolve(r)
       \/ N8nJson(r)
       \/ N8nReject(r)

SpecRelay == InitRelay /\ [][NextRelay]_vars

(***************************************************************************)
(* Properties of GET /did/client-key.                                       *)
(***************************************************************************)
\* A step in which request r leaves "idle": its handler starts.
Starts(r) == pc[r] = "idle" /\ pc'[r] # "idle"

\* A step in which request r writes the cache.
Writes(r) == hist'.wroteSeq[r] # hist.wroteSeq[r]

\* C1: a request that starts while a key is cached and younger than the TTL
\* is answered 200 with the cached key and cached: true in that same step, and
\* a request answered from the cache has issued no outbound call.
C1_CacheHitShortCircuits ==
    /\ [][\A r \in Reqs :
            (Starts(r) /\ Truthy(cachedClientKey) /\ now - cachedAt < TTL)
            => /\ pc'[r] = "done"
               /\ resp'[r].status = 200
               /\ resp'[r].clientKey = cachedClientKey
               /\ resp'[r].cached
               /\ calls'[r] = <<>>]_vars
    /\ [](\A r \in Reqs : resp[r].cached => calls[r] = <<>> /\ pc[r] = "done")

\* C1 witness: a request was answered from the cache after time had passed.
C1_Witness ==
    \E r \in Reqs :
       /\ pc[r] = "done" /\ resp[r].cached /\ resp[r].clientKey = cachedClientKey
       /\ calls[r] = <<>> /\ now - cachedAt = TTL - 1

\* C2: with a key stored, a request starting before the TTL has elapsed is
\* answered with that key as a cache hit; one starting when now - cachedAt >=
\* TTL gets no cached response and issues the upstream GET; and no response
\* tagged cached: true is ever sent when now - cachedAt >= TTL.
C2_CacheExpiry ==
    /\ [][\A r \in Reqs :
            (Starts(r) /\ Truthy(cachedClientKey))
            => IF now - cachedAt < TTL
               THEN resp'[r].cached /\ resp'[r].clientKey = cachedClientKey
               ELSE /\ resp'[r] = resp[r]
                    /\ pc'[r] = "awaitGet1"
                    /\ calls'[r] = <<"GET">>]_vars
    /\ [][\A r \in Reqs :
            (~resp[r].cached /\ resp'[r].cached)
            => now - cachedAt < TTL /\ resp'[r].clientKey = cachedClientKey]_vars

\* C2 witness: a request read the cache after its last write, found the key
\* stale and is awaiting its GET when the key is exactly TTL old.
C2_Witness ==
    \E r \in Reqs :
       /\ pc[r] = "awaitGet1" /\ calls[r] = <<"GET">>
       /\ hist.writes >= 1 /\ hist.readSeq[r] = hist.writes
       /\ Truthy(cachedClientKey) /\ now - cachedAt = TTL

\* C3: when the first GET returned 2xx and its body holds a key, the request
\* has stored that key, is answered 200 with it, and has issued the one GET
\* only: no POST, no second GET.
C3_GetFirstNoPost ==
    \A r \in Reqs :
       (Ok(loc[r].getR) /\ Truthy(ExtractKey(loc[r].getData)))
       => /\ pc[r] = "done"
          /\ resp[r].status = 200
          /\ resp[r].clientKey = ExtractKey(loc[r].getData)
          /\ calls[r] = <<"GET">>
          /\ hist.wroteSeq[r] > 0
          /\ (hist.lastWriter = r => cachedClientKey = resp[r].clientKey)

\* C3 witness: a request answered from the first GET, whose key sits in the
\* second candidate field.
C3_Witness ==
    \E r \in Reqs :
       /\ pc[r] = "done" /\ Ok(loc[r].getR) /\ loc[r].getData.clientKey = "kB"
       /\ resp[r].clientKey = "kB" /\ cachedClientKey = "kB"

\* C4: when the recovery GET returned 2xx with a key, the request is answered
\* 200 with note "fetched_after_exists" and the key of the recovery GET's
\* payload, and that key is what it wrote to the cache.
C4_AlreadyExistsRecovery ==
    /\ \A r \in Reqs :
          (pc[r] = "done" /\ Ok(loc[r].getR2) /\ Truthy(ExtractKey(loc[r].getData2)))
          => /\ resp[r].status = 200
             /\ resp[r].note = "fetched_after_exists"
             /\ resp[r].clientKey = ExtractKey(loc[r].getData2)
             /\ calls[r] = <<"GET", "POST", "GET">>
             /\ hist.wroteSeq[r] > 0
             /\ (hist.lastWriter = r => cachedClientKey = ExtractKey(loc[r].getData2))
    /\ \A r \in Reqs :
          resp[r].note = "fetched_after_exists"
          => Ok(loc[r].getR2) /\ resp[r].clientKey = ExtractKey(loc[r].getData2)

\* C4 witness: the failed POST's body held the key kB, the recovery GET's
\* payload the key kA, and kA is answered and cached.
C4_Witness ==
    \E r \in Reqs :
       /\ pc[r] = "done" /\ resp[r].note = "fetched_after_exists"
       /\ ~Ok(loc[r].getR) /\ ~Ok(loc[r].postR)
       /\ ExtractKey(loc[r].postData) = "kB"
       /\ ExtractKey(loc[r].getData2) = "kA"
       /\ resp[r].clientKey = "kA" /\ cachedClientKey = "kA"

\* The description of a POST body is a string containing "already exists".
SaysAlreadyExists(data) ==
    /\ data.description.type = "string"
    /\ Includes(data.description.words, <<"already", "exists">>)

\* C5: when the POST returned non-2xx and the description of its body does
\* not contain "already exists", the request is answered 502 did_error with
\* the POST's status and body, and has made two calls only (no recovery GET).
C5_PostFailureSurfaced ==
    \A r \in Reqs :
       (pc[r] = "done" /\ loc[r].postR # 0 /\ ~Ok(loc[r].postR)
          /\ ~SaysAlreadyExists(loc[r].postData))
       => /\ resp[r].status = 502
          /\ resp[r].error = "did_error"
          /\ resp[r].upstatus = loc[r].postR
          /\ resp[r].details = loc[r].postData
          /\ calls[r] = <<"GET", "POST">>

\* C6: when the recovery GET returned non-2xx, or a body without a key, the
\* request is answered 502 did_error "Client key exists but could not be
\* fetched" with the recovery body as details, and writes nothing to the cache.
C6_RecoveryUnfetchable ==
    \A r \in Reqs :
       (pc[r] = "done" /\ loc[r].getR2 # 0
          /\ (~Ok(loc[r].getR2) \/ ~Truthy(ExtractKey(loc[r].getData2))))
       => /\ resp[r].status = 502
          /\ resp[r].error = "did_error"
          /\ resp[r].message = "Client key exists but could not be fetched"
          /\ resp[r].details = loc[r].getData2
          /\ resp[r].clientKey = Undef
          /\ hist.wroteSeq[r] = 0

\* C6 witness: the recovery GET answered 404 with a body that holds a key.
C6_Witness ==
    \E r \in Reqs :
       /\ pc[r] = "done" /\ loc[r].getR2 = 404
       /\ ExtractKey(loc[r].getData2) = "kA"
       /\ resp[r].status = 502 /\ resp[r].details = loc[r].getData2

\* C7: when the POST returned 2xx and its body holds no key, the request is
\* answered 502 did_error "D-ID did not return a clientKey"; and no 200 answer
\* carries an empty or undefined clientKey.
C7_NoKeyReturned ==
    /\ \A r \in Reqs :
          (pc[r] = "done" /\ Ok(loc[r].postR) /\ ~Truthy(ExtractKey(loc[r].postData)))
          => /\ resp[r].status = 502
             /\ resp[r].error = "did_error"
             /\ resp[r].message = "D-ID did not return a clientKey"
             /\ hist.wroteSeq[r] = 0
    /\ \A r \in Reqs : resp[r].status = 200 => Truthy(resp[r].clientKey)

\* C7 witness: the POST answered 201 with a body whose only key field is "".
C7_Witness ==
    \E r \in Reqs :
       /\ pc[r] = "done" /\ loc[r].postR = 201 /\ loc[r].postData.key = ""
       /\ resp[r].status = 502

\* C8 as stated: no other request writes the cache between a request's cache
\* read and its own write.
C8_NoInterleavedWrite ==
    \A r \in Reqs : hist.wroteSeq[r] > 0 => hist.wroteSeq[r] = hist.readSeq[r] + 1

\* C8 amended: another request may write between a request's read and its
\* write; every write then overwrites the cache with the writer's own key and
\* the current time (last write wins), and the cache holds the key answered to
\* the last writer.
C8_LastWriteWins ==
    /\ [][\A r \in Reqs :
            Writes(r)
            => /\ cachedClientKey' = resp'[r].clientKey
               /\ Truthy(cachedClientKey')
               /\ cachedAt' = now
               /\ hist'.lastWriter = r]_vars
    /\ [](\A r \in Reqs : hist.lastWriter = r => cachedClientKey = resp[r].clientKey)

\* C8 witness: another request wrote a different key between r's read and r's
\* write, and the cache holds r's key.
C8_Witness ==
    \E r \in Reqs, o \in Reqs :
       /\ o # r /\ hist.wroteSeq[o] > hist.readSeq[r] /\ hist.wroteSeq[r] > hist.wroteSeq[o]
       /\ resp[o].clientKey # resp[r].clientKey
       /\ cachedClientKey = resp[r].clientKey

\* Requests a and b both missed the cache, each reading it before either wrote.
BothMissed(a, b) ==
    /\ a # b /\ pc[a] # "idle" /\ pc[b] # "idle"
    /\ ~resp[a].cached /\ ~resp[b].cached
    /\ (hist.wroteSeq[a] = 0 \/ hist.readSeq[b] < hist.wroteSeq[a])
    /\ (hist.wroteSeq[b] = 0 \/ hist.readSeq[a] < hist.wroteSeq[b])

\* Request r issued an upstream GET of its own as its first call.
OwnGet(r) == Len(calls[r]) >= 1 /\ calls[r][1] = "GET"

\* C9 as stated: two requests that both missed the cache before either
\* stored a key have each issued their own upstream GET.
C9_EachIssuesItsGet ==
    \A a \in Reqs, b \in Reqs : BothMissed(a, b) => OwnGet(a) /\ OwnGet(b)

\* C9 amended: two requests that both missed the cache before either stored a
\* key have each issued their own upstream GET when both basic-auth
\* credentials are configured; when one is missing each is answered 500
\* server_error without any outbound call.  A request past its start is
\* either answered or awaiting a call of its own.
C9_NoSingleFlight ==
    /\ \A a \in Reqs, b \in Reqs :
          BothMissed(a, b)
          => IF Truthy(env.DID_BASIC_USER) /\ Truthy(env.DID_BASIC_PASS)
             THEN OwnGet(a) /\ OwnGet(b)
             ELSE \A r \in {a, b} :
                     resp[r].status = 500 /\ resp[r].error = "server_error"
                     /\ calls[r] = <<>>
    /\ \A r \in Reqs : pc[r] \notin {"idle", "done"} => OwnGet(r)

\* C9 witness: both requests missed the empty cache and each awaits its own GET.
C9_Witness ==
    /\ BothMissed("r1", "r2")
    /\ pc["r1"] = "awaitGet1" /\ pc["r2"] = "awaitGet1"
    /\ calls["r1"] = <<"GET">> /\ calls["r2"] = <<"GET">>

(***************************************************************************)
(* Properties of POST /vf/reply.                                            *)
(***************************************************************************)
\* C10: every request whose userText is missing, empty or not a string is
\* answered 400 and causes no outbound call, whatever the configuration.
C10_RelayValidation ==
    \A r \in Reqs :
       (rin[r].handler # "none"
          /\ (~JTruthy(rin[r].userText) \/ ~IsString(rin[r].userText)))
       => rpc[r] = "done" /\ rresp[r].status = 400 /\ rcalls[r] = <<>>


\* Request r received the body of an upstream answer with a 4xx/5xx status.
UpstreamFailed(r) ==
    rpc[r] = "done" /\ rloc[r].body # VfUnset /\ ~Ok(rloc[r].status)

RECURSIVE BlockLines(_)
BlockLines(blocks) ==
    IF blocks = <<>> THEN <<>>
    ELSE LET texts == SlateTexts(<<blocks[1]>>) IN
         (IF Len(texts) > 0 THEN <<Join(texts, <<" ">>)>> ELSE <<>>)
         \o BlockLines(Tail(blocks))

\* Request r of server.js was answered from an upstream 2xx whose traces are
\* one single text event carrying a rich-text document and no flat message.
OneSlateEvent(r) ==
    /\ rpc[r] = "done" /\ rin[r].handler = "server.js"
    /\ rloc[r].body # VfUnset /\ Ok(rloc[r].status)
    /\ LET traces == TracesOf(rloc[r].body) IN
       /\ traces.kind = "array" /\ Len(traces.items) = 1
       /\ traces.items[1].kind = "object" /\ traces.items[1].type = "text"
       /\ ~IsString(traces.items[1].message)
       /\ traces.items[1].content.isArray

\* C12: for a single text event with a rich-text document, the reply joins
\* the texts of one block with a single space and separates different blocks
\* with a newline: the blocks [[a, b], [c]] give "a b\nc".
C12_BlocksOnSeparateLines ==
    \A r \in Reqs :
       OneSlateEvent(r)
       => LET blocks == TracesOf(rloc[r].body).items[1].content.blocks
              text == Trim(Join(BlockLines(blocks), <<"\n">>)) IN
          text # <<>> => rresp[r].replyText = JStr(text)


\* Request r received an upstream body that is not parseable JSON.
GotNonJson(r) == rpc[r] = "done" /\ rloc[r].body = VfNonJson

\* C13, for POST /vf/reply: a request whose upstream body is not parseable
\* JSON is never answered with a 2xx status, whatever the upstream status; it
\* is answered with the upstream status when that is an error status, else 502.
C13_NonJsonIsUpstreamError ==
    \A r \in Reqs :
       GotNonJson(r)
       => /\ ~Ok(rresp[r].status)
          /\ rresp[r].status = IF Ok(rloc[r].status) THEN 502 ELSE rloc[r].status


\* Request r of server.js read the body of an upstream 2xx answer.
UpstreamSucceeded(r) ==
    /\ rpc[r] = "done" /\ rin[r].handler = "server.js"
    /\ rloc[r].body # VfUnset /\ Ok(rloc[r].status)

\* C14: when the upstream answers 2xx, server.js answers 200 with a non-empty
\* string replyText, which is the extractor's output when that is non-empty
\* and the fallback phrase otherwise, for every shape of the upstream body;
\* and no 2xx answer of server.js carries an empty or absent replyText.
C14_ReplyTextNonEmpty ==
    /\ \A r \in Reqs :
          UpstreamSucceeded(r)
          => LET data == IF rloc[r].body.kind = "nonjson" THEN VfNull ELSE rloc[r].body
                 text == extractVoiceflowReply(TracesOf(data)) IN
             /\ rresp[r].status = 200
             /\ IsString(rresp[r].replyText)
             /\ rresp[r].replyText.str # <<>>
             /\ rresp[r].replyText.str = (IF text = <<>> THEN Fallback ELSE text)
    /\ \A r \in Reqs :
          (rin[r].handler = "server.js" /\ Ok(rresp[r].status))
          => UpstreamSucceeded(r) /\ JTruthy(rresp[r].replyText)

\* C14 witness: one request was answered with the trimmed flat message of a
\* bare trace array, another with the fallback phrase for a JSON null body.
C14_Witness ==
    \E a \in Reqs, b \in Reqs :
       /\ UpstreamSucceeded(a) /\ rloc[a].body.kind = "array"
       /\ rresp[a].replyText = JStr(<<"h", "i">>)
       /\ UpstreamSucceeded(b) /\ rloc[b].body = VfNull
       /\ rresp[b].replyText = JStr(Fallback)


(***************************************************************************)
(* Key extraction.                                                          *)
(***************************************************************************)
\* The candidate fields in the order in which they are tried.
Candidates == <<"client_key", "clientKey", "key">>

\* The values a candidate field takes: absent, empty, or a key.
KeyValues == {Undef, "", "kA", "kB"}

\* Every parsed body over these values, JSON null and the {} of a body that
\* is not JSON.
KeyBodies ==
    {Body(a, b, c, NoDesc) : a \in KeyValues, b \in KeyValues, c \in KeyValues}
    \cup {JsonNull, JsonOr(NonJson, EmptyObject)}

\* The candidates of a body that are present and non-empty.
NonEmptyCandidates(data) ==
    {i \in 1..Len(Candidates) : data[Candidates[i]] \notin {Undef, ""}}

\* The extracted key is the value of the earliest present, non-empty
\* candidate of the body; it is falsy exactly when there is none.
FirstMatch(data, clientKey) ==
    LET found == NonEmptyCandidates(data) IN
    IF found = {} THEN ~Truthy(clientKey)
    ELSE clientKey = data[Candidates[CHOOSE i \in found : \A j \in found : i <= j]]

\* The extraction gives the first match on every body.
ExtractsFirstMatch ==
    \A body \in KeyBodies \cup DidBodies :
       LET data == JsonOr(body, EmptyObject) IN FirstMatch(data, ExtractKey(data))

\* The body from which an answered request took its key: that of the recovery
\* GET, of the first GET, or of the POST.
KeySource(r) ==
    IF resp[r].note = "fetched_after_exists" THEN loc[r].getData2
    ELSE IF calls[r] = <<"GET">> THEN loc[r].getData
    ELSE loc[r].postData

\* C15: for every body, the extracted key is the value of the earliest of
\* client_key, clientKey, key that is present and non-empty, and no key is
\* found exactly when all three are absent or empty.  The first GET, the POST
\* and the recovery GET apply this rule: a key answered 200 is the first
\* match of the body it was taken from, and the 502 answers for a missing key
\* are given for bodies without any match.
C15_FirstNonEmptyCandidate ==
    /\ ExtractsFirstMatch
    /\ \A r \in Reqs :
          (pc[r] = "done" /\ resp[r].status = 200 /\ ~resp[r].cached)
          => /\ NonEmptyCandidates(KeySource(r)) # {}
             /\ FirstMatch(KeySource(r), resp[r].clientKey)
    /\ \A r \in Reqs :
          resp[r].message = "D-ID did not return a clientKey"
          => NonEmptyCandidates(loc[r].postData) = {}
    /\ \A r \in Reqs :
          (resp[r].message = "Client key exists but could not be fetched"
             /\ Ok(loc[r].getR2))
          => NonEmptyCandidates(loc[r].getData2) = {}

\* C15 witness: the POST of one request and the recovery GET of another each
\* returned a body whose first candidate is empty, whose second holds kB and
\* whose third holds kA, and both requests were answered 200 with kB.
C15_Witness ==
    \E a \in Reqs, b \in Reqs :
       /\ pc[a] = "done" /\ calls[a] = <<"GET", "POST">>
       /\ loc[a].postData = Body("", "kB", "kA", NoDesc)
       /\ resp[a].status = 200 /\ resp[a].clientKey = "kB"
       /\ pc[b] = "done" /\ resp[b].note = "fetched_after_exists"
       /\ loc[b].getData2 = Body("", "kB", "kA", NoDesc)
       /\ resp[b].clientKey = "kB"


(***************************************************************************)
(* The sequence of outbound calls of one request.                           *)
(***************************************************************************)
\* The longest sequence of calls of one request.
Fallback3 == <<"GET", "POST", "GET">>

\* A step in which request r issues its n-th outbound call.
Issues(r, n) == Len(calls[r]) = n - 1 /\ Len(calls'[r]) = n

\* C16: the calls of one request are a prefix of GET, POST, GET, issued one
\* at a time and never taken back.  The POST is issued only in the step in
\* which the first GET is seen to have failed (non-2xx), or in which the body
\* of a 2xx first GET gave no key (nothing stored, nothing answered).  The
\* second GET is issued only in the step that read the body of a non-2xx POST
\* whose description contains "already exists".  An answered request issues
\* no further call.
C16_BoundedOrderedFallback ==
    /\ [](\A r \in Reqs :
            /\ Len(calls[r]) <= 3
            /\ calls[r] = SubSeq(Fallback3, 1, Len(calls[r]))
            /\ (Len(calls[r]) >= 2 => loc[r].getR # 0 /\ loc[r].getData = NoData)
            /\ (Len(calls[r]) = 3
                  => /\ loc[r].postR # 0 /\ ~Ok(loc[r].postR)
                     /\ SaysAlreadyExists(loc[r].postData)))
    /\ [][\A r \in Reqs :
            /\ (calls'[r] = calls[r] \/ Issues(r, Len(calls[r]) + 1))
            /\ (pc[r] = "done" => calls'[r] = calls[r])
            /\ (Issues(r, 2)
                  => \/ pc[r] = "awaitGet1" /\ ~Ok(loc'[r].getR)
                     \/ /\ pc[r] = "awaitGet1Json" /\ Ok(loc[r].getR)
                        /\ ~Writes(r) /\ resp'[r] = NoResp)
            /\ (Issues(r, 3)
                  => /\ pc[r] = "awaitPostJson" /\ ~Ok(loc[r].postR)
                     /\ SaysAlreadyExists(loc'[r].postData))]_vars

\* C16 witness: a request made all three calls: its first GET answered 200
\* without a key, its POST 409 "already exists", and it has been answered.
C16_Witness ==
    \E r \in Reqs :
       /\ pc[r] = "done" /\ calls[r] = Fallback3
       /\ loc[r].getR = 200 /\ loc[r].postR = 409
       /\ SaysAlreadyExists(loc[r].postData)


(***************************************************************************)
(* The key cache.                                                           *)
(***************************************************************************)
\* A step in which request r is answered.
Answers(r) == pc[r] # "done" /\ pc'[r] = "done"

\* A step that changes the cached pair.
CacheChanges == <<cachedClientKey, cachedAt>>' # <<cachedClientKey, cachedAt>>

\* C17: the pair (cachedClientKey, cachedAt) changes only in a step that
\* answers some request 200 with a clientKey that is not tagged cached, and
\* after that step cachedClientKey is the clientKey of that answer.  A step
\* that answers a cache hit, a 502 did_error or a 500 server_error (a rejected
\* outbound call, a missing credential, a thrown TypeError) changes neither
\* of the two, and so does a step that answers nothing.
C17_OnlySuccessWritesCache ==
    /\ [][CacheChanges
            => \E r \in Reqs :
                  /\ Answers(r)
                  /\ resp'[r].status = 200 /\ ~resp'[r].cached
                  /\ Truthy(resp'[r].clientKey)
                  /\ cachedClientKey' = resp'[r].clientKey
                  /\ cachedAt' = now]_vars
    /\ [][\A r \in Reqs :
            (Answers(r)
               /\ (resp'[r].cached \/ resp'[r].status \in {500, 502}))
            => /\ ~CacheChanges
               /\ resp'[r].error \in
                     IF resp'[r].cached THEN {Undef}
                     ELSE IF resp'[r].status = 502 THEN {"did_error"}
                     ELSE {"server_error"}]_vars

\* C17 witness: one request stored its key; the other started once that key
\* was stale, ran the protocol and was answered an error (502 or 500) after
\* at least one outbound call, and the cache still holds the first one's key
\* with its old stamp.
C17_Witness ==
    \E a \in Reqs, b \in Reqs :
       /\ hist.wroteSeq[a] = 1 /\ hist.writes = 1
       /\ pc[b] = "done" /\ hist.readSeq[b] = 1
       /\ resp[b].status \in {500, 502} /\ calls[b] # <<>>
       /\ cachedClientKey = resp[a].clientKey
       /\ now - cachedAt >= TTL


\* C18: in every state the cached key and its stamp belong together: the key
\* is null exactly when no stamp was ever taken, it is never the empty
\* string, and it is the key answered to the last request that stored one.
\* Key and stamp change only together, in the one step of a storing request,
\* to that request's key and the current time; and a stored key is never
\* reset to null or to an empty value.
C18_CachePairWrittenTogether ==
    /\ [](/\ (cachedClientKey = Undef <=> cachedAt = 0)
          /\ cachedClientKey # ""
          /\ (hist.writes = 0 <=> cachedClientKey = Undef)
          /\ cachedAt <= now
          /\ \A r \in Reqs : hist.lastWriter = r => cachedClientKey = resp[r].clientKey)
    /\ [][/\ (CacheChanges => \E r \in Reqs : Writes(r))
          /\ \A r \in Reqs :
                Writes(r) => cachedClientKey' = resp'[r].clientKey /\ cachedAt' = now
          /\ (Truthy(cachedClientKey) => Truthy(cachedClientKey'))]_vars

\* C18 witness: two acquisitions stored different keys one after the other,
\* the second after the clock had advanced; the cache holds the second one's
\* key with the second one's stamp.
C18_Witness ==
    \E a \in Reqs, b \in Reqs :
       /\ hist.wroteSeq[a] = 1 /\ hist.wroteSeq[b] = 2
       /\ resp[a].clientKey # resp[b].clientKey
       /\ cachedClientKey = resp[b].clientKey
       /\ cachedAt > StartTime /\ cachedAt = now


(***************************************************************************)
(* Termination: every request is answered.                                  *)
(***************************************************************************)
\* Configurations for the termination check: everything set, nothing set.
LiveEnvs == { Env("user", "pass", "state", "key", "url"), Env("", "", "", "", "") }

InitLive ==
    /\ env \in LiveEnvs
    /\ InitDid
    /\ InitRelayVars

\* An inbound request arrives at one of the endpoints.
Arrives(r) ==
    \/ rpc[r] = "idle" /\ DidClientKey(r)
    \/ pc[r] = "idle" /\ VfReply(r)
    \/ pc[r] = "idle" /\ N8nVfReply(r)

\* An awaited outbound call of request r resolves or rejects, or the body of
\* its response has been read: the handler resumes.
Resumes(r) ==
    \/ Get1Resolve(r)
    \/ Get1Json(r)
    \/ PostResolve(r)
    \/ PostJson(r)
    \/ Get2Resolve(r)
    \/ Get2Json(r)
    \/ FetchReject(r)
    \/ VfResolve(r)
    \/ VfJson(r)
    \/ VfReject(r)
    \/ N8nResolve(r)
    \/ N8nJson(r)
    \/ N8nReject(r)

NextLive == \E r \in Reqs : Arrives(r) \/ Resumes(r)

\* Every awaited call eventually resolves or rejects, and the event loop then
\* runs the handler's continuation.
SpecLive ==
    InitLive /\ [][NextLive]_vars /\ \A r \in Reqs : WF_vars(Resumes(r))


\* Where a handler awaiting a fetch goes when the call resolves.
AfterFetch(at) ==
    CASE at = "awaitGet1" -> {"awaitGet1Json", "awaitPost"}
      [] at = "awaitPost" -> {"awaitPostJson"}
      [] at = "awaitGet2" -> {"awaitGet2Json"}
      [] at = "awaitVf" -> {"awaitVfJson"}
      [] at = "awaitN8n" -> {"awaitN8nJson"}
      [] OTHER -> {}

\* C19: provided every awaited outbound call eventually resolves or rejects,
\* every request that has arrived at /did/client-key or at POST /vf/reply is
\* eventually answered.  A request has a response exactly when its handler
\* has ended, and a response once sent is never replaced by another.  A
\* handler awaiting a fetch either goes on with the resolved call or, when
\* the call rejects, ends in that step with 500 (server_error in server.js).
C19_EveryRequestAnsweredOnce ==
    /\ \A r \in Reqs : pc[r] # "idle" ~> pc[r] = "done"
    /\ \A r \in Reqs : rpc[r] # "idle" ~> rpc[r] = "done"
    /\ [](\A r \in Reqs :
            /\ (pc[r] = "done" <=> resp[r] # NoResp)
            /\ (rpc[r] = "done" <=> rresp[r] # NoRelayResp))
    /\ [][\A r \in Reqs :
            /\ (resp[r] # NoResp => resp'[r] = resp[r] /\ pc'[r] = "done")
            /\ (rresp[r] # NoRelayResp => rresp'[r] = rresp[r] /\ rpc'[r] = "done")
            /\ (pc'[r] # pc[r] /\ AfterFetch(pc[r]) # {}
                  => \/ pc'[r] \in AfterFetch(pc[r])
                     \/ /\ pc'[r] = "done"
                        /\ resp'[r].status = 500
                        /\ resp'[r].error = "server_error")
            /\ (rpc'[r] # rpc[r] /\ AfterFetch(rpc[r]) # {}
                  => \/ rpc'[r] \in AfterFetch(rpc[r])
                     \/ /\ rpc'[r] = "done"
                        /\ rresp'[r].status = 500
                        /\ rresp'[r].error =
                              (IF rin[r].handler = "server.js"
                               THEN "server_error" ELSE "vf_proxy_failed"))]_vars

\* C19 witness: one request was answered 500 after its third outbound call,
\* the recovery GET, rejected; the other, a relay request of server.js, was
\* answered 500 after its call to the runtime rejected.
C19_Witness ==
    \E a \in Reqs, b \in Reqs :
       /\ pc[a] = "done" /\ calls[a] = Fallback3 /\ loc[a].getR2 = 0
       /\ resp[a].status = 500 /\ resp[a].message = "fetch failed"
       /\ rpc[b] = "done" /\ rin[b].handler = "server.js"
       /\ Len(rcalls[b]) = 1 /\ rloc[b].status = 0
       /\ rresp[b].status = 500 /\ rresp[b].error = "server_error"

====
